---- MODULE Spec2Model ----
(***************************************************************************)
(* Model of src/main.py: the Streamlit client of the vector-search         *)
(* backend.  One script run (main) is: the backend probe, the              *)
(* configuration panel (an optional "Apply Configuration"), the search     *)
(* interface (an optional search workflow).  Every backend call goes       *)
(* through two retry layers: the urllib3 Retry mounted on the session      *)
(* (create_retry_session) and the with_retry decorator.  One step of the   *)
(* model is one HTTP request together with everything the code does with   *)
(* its reply up to the next request.                                       *)
(*                                                                         *)
(* Units: doc_correlation in hundredths, sleeps in tenths of a second.     *)
(***************************************************************************)
EXTENDS Integers, Sequences, FiniteSets, TLC

VARIABLES
    search_config,   \* st.session_state.search_config
    search_results,  \* st.session_state.search_results
    pc,              \* position of the script run: "idle" or the endpoint being called, or a panel
    config_data,     \* the candidate built by render_configuration_panel
    query,           \* the text of the search box in this run
    search_button,   \* whether the Search button was clicked in this run
    failed_candidate,\* <<rerank_enabled>> of the candidate the last apply sent, if that apply failed
    sent,            \* per step of perform_search, the requests this run's search has put on the
                     \* wire (counted under SearchSpec only)
    retrieved,       \* what perform_search returned to render_search_interface in this run
    attempt,         \* with_retry: attempt
    total,           \* urllib3 Retry.total left for the request in progress
    sleeps,          \* with_retry: the time.sleep arguments of the current call, in order
    hist,            \* summary of the replies the backend gave to the current wrapped call
    lastReply,       \* the reply to the last request
    status,          \* per endpoint, the status code of the response the function last saw (0: none)
    invoked,         \* endpoints that received a request in this script run
    fetched,         \* the "results" list of the last 200 response of get_results in this run
    shown,           \* the st.success / st.error / st.warning messages of this script run
    pre_config,      \* search_config when the script run started
    pre_results      \* search_results when the script run started

vars == <<search_config, search_results, pc, config_data, query, attempt, total,
          sleeps, hist, lastReply, status, invoked, shown,
          fetched, pre_config, pre_results, search_button, retrieved, failed_candidate, sent>>

----------------------------------------------------------------------------
(* Constants of the program *)

MAX_RETRIES == 10

StatusForcelist == {502, 503, 504}

\* urllib3's Retry retries a response status only for these methods (its default)
AllowedMethods == {"HEAD", "GET", "PUT", "DELETE", "OPTIONS", "TRACE"}

Endpoints == {"docs", "configure", "submit", "retrieve", "rerank", "results"}

Method(e) == IF e \in {"docs", "results"} THEN "GET" ELSE "POST"

RetrievalWeights == {"Mixed", "Semantic", "Keyword"}

DefaultConfig ==
    [doc_correlation |-> 85, recall_number |-> 10, retrieval_weight |-> "Mixed",
     mixed_percentage |-> 50, rerank_enabled |-> FALSE]

----------------------------------------------------------------------------
(* The environment: what the user enters and what the backend answers *)

DocCorrelationChoices == {90}
RecallNumberChoices == {20}
MixedPercentageChoices == {30}
\* the radio options the user picks from in the runs explored
RetrievalWeightChoices == {"Mixed", "Semantic"}
Queries == {"", "climate policy"}

DocA == [content |-> "doc A", correlation |-> 93, tokens |-> 128]
DocB == [content |-> "doc B", correlation |-> 71, tokens |-> 64]
ResultLists == {<<>>, <<DocA>>, <<DocB, DocA>>}
\* the result list in the body of a 200 response of /query/retrieve
RetrieveBodies == {<<DocA>>}

StatusCodes == {200, 204, 400, 500, 503}

\* A reply of the backend to one request: a response with a status code, a
\* connection failure (nothing reached the backend) or a read timeout.
Replies ==
    [kind : {"status"}, code : StatusCodes] \cup [kind : {"connerr", "timeout"}, code : {0}]

NoReply == [kind |-> "none", code |-> 0, to |-> "none"]

Tag(r, e) == [kind |-> r.kind, code |-> r.code, to |-> e]

----------------------------------------------------------------------------
(* History of the replies to the current wrapped call: the number of leading *)
(* 503 replies, then the number of 200 replies after them; any other reply   *)
(* makes the history "mixed".                                                *)

NewHist == [shape |-> "lead503", n503 |-> 0, n200 |-> 0]

Hist(h, r) ==
    IF h.shape = "lead503" /\ r.kind = "status" /\ r.code = 503
    THEN [h EXCEPT !.n503 = @ + 1]
    ELSE IF h.shape \in {"lead503", "then200"} /\ r.kind = "status" /\ r.code = 200
    THEN [h EXCEPT !.shape = "then200", !.n200 = @ + 1]
    ELSE [shape |-> "mixed", n503 |-> 0, n200 |-> 0]

NoStatus == [e \in Endpoints |-> 0]

NoneSent == [e \in {"submit", "retrieve"} |-> 0]

\* a connection that could not be opened fails before the request is sent;
\* a response or a read timeout follows a request that was sent
Sent(r) == r.kind # "connerr"

----------------------------------------------------------------------------
(* create_retry_session: what the mounted HTTPAdapter does with one reply,   *)
(* t retries being left: "retry" (send the request again), "raise" (a        *)
(* requests.exceptions.RequestException) or "response" (hand it back).       *)

\* (a variant that allows one resend more)
AdapterOneMore(e, r, t) ==
    CASE r.kind = "status" ->
           IF r.code \in StatusForcelist /\ Method(e) \in AllowedMethods
           THEN (IF t >= 0 THEN "retry" ELSE "raise")
           ELSE "response"
      [] r.kind = "connerr" -> IF t >= 0 THEN "retry" ELSE "raise"
      [] r.kind = "timeout" ->
           IF Method(e) \in AllowedMethods /\ t >= 0 THEN "retry" ELSE "raise"

\* (a variant that also retries the other error statuses)
AdapterRetriesEveryError(e, r, t) ==
    CASE r.kind = "status" ->
           IF r.code >= 400 /\ Method(e) \in AllowedMethods
           THEN (IF t > 0 THEN "retry" ELSE "raise")
           ELSE "response"
      [] r.kind = "connerr" -> IF t > 0 THEN "retry" ELSE "raise"
      [] r.kind = "timeout" ->
           IF Method(e) \in AllowedMethods /\ t > 0 THEN "retry" ELSE "raise"

Adapter(e, r, t) ==
    CASE r.kind = "status" ->
           IF r.code \in StatusForcelist /\ Method(e) \in AllowedMethods
           THEN (IF t > 0 THEN "retry" ELSE "raise")
           ELSE "response"
      [] r.kind = "connerr" -> IF t > 0 THEN "retry" ELSE "raise"
      [] r.kind = "timeout" ->
           IF Method(e) \in AllowedMethods /\ t > 0 THEN "retry" ELSE "raise"

(* with_retry *)

\* (a variant that allows one invocation more)
RetryAgainOneMore(a) == a <= MAX_RETRIES

\* line 49-51: after the exception of attempt number a (counted from 1), loop again?
RetryAgain(a) == a < MAX_RETRIES

\* (a variant that sleeps the same time after every failed attempt)
BackoffConstant(a) == 5

\* line 52: time.sleep(0.5 * attempt), in tenths of a second
Backoff(a) == 5 * a

(* the status tests of the callers *)

\* (variants that do not look at the status)
ConfigAcceptedUnchecked(code) == TRUE
SubmitOkUnchecked(code) == TRUE
ResultsOkUnchecked(code) == TRUE

\* line 158
ConfigAccepted(code) == code = 200
\* line 174
SubmitOk(code) == code = 200
\* line 182
RetrieveOk(code) == code = 200
\* line 225
RerankOk(code) == code = 200
\* line 230
ResultsOk(code) == code = 200

\* (a variant in which a failed rerank ends the search)
AfterRerankAbort(code) == IF code = 200 THEN "results" ELSE "idle"

\* lines 224-229: whatever the status of the rerank response, get_results is next
AfterRerank(code) == "results"

\* (a variant in which a failed probe ends the script run)
AfterProbeGated(connected) == IF connected THEN "panel" ELSE "idle"

\* lines 61-63 and 283-284: check_backend_connection returns, whatever it
\* found, and run() renders the panels
AfterProbe(connected) == "panel"

\* (a variant in which a retry resumes at the step that failed)
AfterRetryResume(step) == step

\* lines 44-47: the wrapper calls perform_search again, from its first line
AfterRetry(step) == "submit"

\* (a variant that searches whenever the button is clicked)
ShouldSearchAnyQuery(button, q) == button

\* line 215: if search_button and query
ShouldSearch(button, q) == button /\ q # ""

\* (a variant in which the candidate of a failed apply counts)
RerankWantedByCandidate(stored, failed) ==
    IF failed # <<>> THEN failed[1] ELSE stored.rerank_enabled

\* line 222: the stored configuration decides; a candidate that was sent and
\* not accepted is not read
RerankWanted(stored, failed) == stored.rerank_enabled

\* (a variant that stores what perform_search returned)
StoredResultsOfRetrieve(returned, body) == returned

\* line 231: the session's results are the "results" of get_results' response;
\* what perform_search returned (line 219) is not read
StoredResults(returned, body) == body

\* (a variant that keeps the slider's value whatever the weight)
MixedPercentageKept(rw, mp) == <<mp>>

\* lines 132-139: the local mixed_percentage; None is <<>>, a value v is <<v>>.
\* mp is what the "Mixed Percentage" slider holds, shown only for Mixed.
MixedPercentage(rw, mp) == IF rw = "Mixed" THEN <<mp>> ELSE <<>>

\* lines 147-153: the candidate built from the widgets
ConfigData(dc, rn, rw, mixed_percentage, re) ==
    [doc_correlation |-> dc, recall_number |-> rn, retrieval_weight |-> rw,
     mixed_percentage |-> IF mixed_percentage # <<>> THEN mixed_percentage[1] ELSE 50,
     rerank_enabled |-> re]

----------------------------------------------------------------------------
(* The state: st.session_state, the position of the script run, the locals   *)
(* of with_retry and of the adapter, and what the run has shown so far       *)

Configs ==
    [doc_correlation : 0..100, recall_number : 1..50, retrieval_weight : RetrievalWeights,
     mixed_percentage : 0..100, rerank_enabled : BOOLEAN]

TypeOK ==
    /\ search_config \in Configs
    /\ search_results \in ResultLists
    /\ pc \in Endpoints \cup {"idle", "panel", "search_iface"}
    /\ config_data \in Configs
    /\ query \in Queries
    /\ attempt \in 0..MAX_RETRIES
    /\ total \in 0..MAX_RETRIES
    /\ sleeps \in Seq(Nat) /\ Len(sleeps) = (IF attempt = MAX_RETRIES THEN attempt - 1 ELSE attempt)
    /\ hist.shape \in {"lead503", "then200", "mixed"} /\ hist.n503 \in Nat /\ hist.n200 \in Nat
    /\ lastReply.kind \in {"none", "status", "connerr", "timeout"}
    /\ lastReply.to \in Endpoints \cup {"none"}
    /\ status \in [Endpoints -> StatusCodes \cup {0}]
    /\ invoked \subseteq Endpoints
    /\ fetched \in ResultLists
    /\ shown \subseteq {"backend_connected", "backend_failed", "backend_error",
                        "config_success", "config_error", "config_exception",
                        "search_error", "rerank_warning", "found", "fetch_failed"}
    /\ pre_config \in Configs
    /\ pre_results \in ResultLists
    /\ search_button \in BOOLEAN
    /\ retrieved \in RetrieveBodies \cup {<<>>}
    /\ failed_candidate \in {<<>>, <<TRUE>>, <<FALSE>>}
    /\ sent \in [{"submit", "retrieve"} -> 0..MAX_RETRIES]

Init ==
    /\ search_config = DefaultConfig
    /\ search_results = <<>>
    /\ pc = "idle"
    /\ config_data = DefaultConfig
    /\ query = ""
    /\ attempt = 0
    /\ total = MAX_RETRIES
    /\ sleeps = <<>>
    /\ hist = NewHist
    /\ lastReply = NoReply
    /\ status = NoStatus
    /\ invoked = {}
    /\ fetched = <<>>
    /\ shown = {}
    /\ pre_config = DefaultConfig
    /\ pre_results = <<>>
    /\ search_button = FALSE
    /\ retrieved = <<>>
    /\ failed_candidate = <<>>
    /\ sent = NoneSent

\* the bookkeeping of a wrapped call that starts (wrapper, lines 40-42)
StartCall ==
    /\ attempt' = 0
    /\ total' = MAX_RETRIES
    /\ sleeps' = <<>>
    /\ hist' = NewHist

\* one request to e was answered by r
Answered(e, r) ==
    /\ lastReply' = Tag(r, e)
    /\ invoked' = invoked \cup {e}

\* the adapter sends the same request again
Resend(e, r) ==
    /\ total' = total - 1
    /\ hist' = Hist(hist, r)
    /\ UNCHANGED <<attempt, sleeps>>

\* with_retry caught a RequestException and the wrapped function runs again
Again(r) ==
    /\ attempt' = attempt + 1
    /\ sleeps' = Append(sleeps, Backoff(attempt + 1))
    /\ total' = MAX_RETRIES
    /\ hist' = Hist(hist, r)

\* with_retry caught the last RequestException and raises it (line 57)
GiveUp(e, r) ==
    /\ attempt' = attempt + 1
    /\ hist' = Hist(hist, r)
    /\ total' = MAX_RETRIES
    /\ UNCHANGED sleeps

\* the wrapped function got a response, or raised something with_retry lets
\* through: the request is over, and its Retry object with it
Returned(e, r) ==
    /\ hist' = Hist(hist, r)
    /\ total' = MAX_RETRIES
    /\ UNCHANGED <<attempt, sleeps>>

----------------------------------------------------------------------------
(* main: a script run starts; __init__ probes the backend (lines 61-63) *)

Rerun ==
    /\ pc = "idle"
    /\ pc' = "docs"
    /\ StartCall
    /\ lastReply' = NoReply
    /\ status' = NoStatus
    /\ invoked' = {}
    /\ fetched' = <<>>
    /\ shown' = {}
    /\ config_data' = search_config
    /\ query' = ""
    /\ pre_config' = search_config
    /\ pre_results' = search_results
    /\ search_button' = FALSE
    /\ retrieved' = <<>>
    /\ UNCHANGED <<search_config, search_results, failed_candidate>>

\* check_backend_connection, lines 65-81: its own try/except swallows every
\* exception, so with_retry never sees one
ProbeRequest(r) ==
    /\ pc = "docs"
    /\ Answered("docs", r)
    /\ LET out == Adapter("docs", r, total) IN
       CASE out = "retry" ->
              /\ Resend("docs", r)
              /\ UNCHANGED <<pc, shown, status>>
         [] out = "raise" ->
              /\ Returned("docs", r)
              /\ shown' = shown \cup {"backend_error"}
              /\ pc' = AfterProbe(FALSE)
              /\ UNCHANGED status
         [] out = "response" ->
              /\ Returned("docs", r)
              /\ status' = [status EXCEPT !["docs"] = r.code]
              /\ shown' = shown \cup {IF r.code = 200 THEN "backend_connected"
                                                      ELSE "backend_failed"}
              /\ pc' = AfterProbe(r.code = 200)
    /\ UNCHANGED <<search_config, search_results, config_data, query,
                   fetched, pre_config, pre_results, search_button, retrieved, failed_candidate>>

----------------------------------------------------------------------------
(* render_configuration_panel, lines 105-164 *)

\* "Apply Configuration" was clicked with these widget values
ApplyConfiguration(dc, rn, rw, mp, re) ==
    /\ pc = "panel"
    /\ config_data' = ConfigData(dc, rn, rw, MixedPercentage(rw, mp), re)
    /\ StartCall
    /\ pc' = "configure"
    /\ UNCHANGED <<search_config, search_results, query, lastReply, status,
                   invoked, shown, fetched, pre_config, pre_results, search_button, retrieved, failed_candidate>>

\* the button was not clicked in this run
NoApply ==
    /\ pc = "panel"
    /\ pc' = "search_iface"
    /\ UNCHANGED <<search_config, search_results, config_data, query, attempt, total,
                   sleeps, hist, lastReply, status, invoked, shown,
                   fetched, pre_config, pre_results, search_button, retrieved, failed_candidate>>

\* update_configuration (lines 95-103) under with_retry, and lines 156-164
ConfigureRequest(r) ==
    /\ pc = "configure"
    /\ Answered("configure", r)
    /\ LET out == Adapter("configure", r, total) IN
       CASE out = "retry" ->
              /\ Resend("configure", r)
              /\ UNCHANGED <<pc, search_config, shown, status, failed_candidate>>
         [] out = "raise" /\ RetryAgain(attempt + 1) ->
              /\ Again(r)
              /\ UNCHANGED <<pc, search_config, shown, status, failed_candidate>>
         [] out = "raise" /\ ~RetryAgain(attempt + 1) ->
              /\ GiveUp("configure", r)
              /\ shown' = shown \cup {"config_exception"}
              /\ failed_candidate' = <<config_data.rerank_enabled>>
              /\ pc' = "idle"
              /\ UNCHANGED <<search_config, status>>
         [] out = "response" ->
              /\ Returned("configure", r)
              /\ status' = [status EXCEPT !["configure"] = r.code]
              /\ pc' = "idle"
              /\ IF ConfigAccepted(r.code)
                 THEN /\ search_config' = config_data
                      /\ shown' = shown \cup {"config_success"}
                      /\ failed_candidate' = <<>>
                 ELSE /\ shown' = shown \cup {"config_error"}
                      /\ failed_candidate' = <<config_data.rerank_enabled>>
                      /\ UNCHANGED search_config
    /\ UNCHANGED <<search_results, config_data, query, fetched, pre_config, pre_results,
                   search_button, retrieved>>

----------------------------------------------------------------------------
(* render_search_interface, lines 205-237 *)

\* line 215: if search_button and query
SearchInterface(button, q) ==
    /\ pc = "search_iface"
    /\ query' = q
    /\ search_button' = button
    /\ IF ShouldSearch(button, q)
       THEN /\ StartCall
            /\ pc' = "submit"
       ELSE /\ pc' = "idle"
            /\ UNCHANGED <<attempt, total, sleeps, hist>>
    /\ UNCHANGED <<search_config, search_results, config_data, lastReply, status,
                   invoked, shown, fetched, pre_config, pre_results, retrieved, failed_candidate>>

\* perform_search, lines 169-175
SubmitRequest(r) ==
    /\ pc = "submit"
    /\ Answered("submit", r)
    /\ LET out == Adapter("submit", r, total) IN
       CASE out = "retry" ->
              /\ Resend("submit", r)
              /\ UNCHANGED <<pc, shown, status>>
         [] out = "raise" /\ RetryAgain(attempt + 1) ->
              /\ Again(r)
              /\ status' = [status EXCEPT !["submit"] = 0, !["retrieve"] = 0]
              /\ UNCHANGED <<pc, shown>>
         [] out = "raise" /\ ~RetryAgain(attempt + 1) ->
              /\ GiveUp("submit", r)
              /\ shown' = shown \cup {"search_error"}
              /\ pc' = "idle"
              /\ UNCHANGED status
         [] out = "response" ->
              /\ Returned("submit", r)
              /\ status' = [status EXCEPT !["submit"] = r.code]
              /\ IF SubmitOk(r.code)
                 THEN /\ pc' = "retrieve"
                      /\ UNCHANGED shown
                 ELSE \* raise Exception: with_retry lets it through to line 236
                      /\ pc' = "idle"
                      /\ shown' = shown \cup {"search_error"}
    /\ UNCHANGED <<search_config, search_results, config_data, query,
                   fetched, pre_config, pre_results, search_button, retrieved, failed_candidate>>

\* perform_search, lines 178-185, and lines 219-222
RetrieveRequest(r, body) ==
    /\ pc = "retrieve"
    /\ Answered("retrieve", r)
    /\ LET out == Adapter("retrieve", r, total) IN
       CASE out = "retry" ->
              /\ Resend("retrieve", r)
              /\ UNCHANGED <<pc, shown, status, retrieved>>
         [] out = "raise" /\ RetryAgain(attempt + 1) ->
              /\ Again(r)
              /\ status' = [status EXCEPT !["submit"] = 0, !["retrieve"] = 0]
              /\ pc' = AfterRetry("retrieve")
              /\ UNCHANGED <<shown, retrieved>>
         [] out = "raise" /\ ~RetryAgain(attempt + 1) ->
              /\ GiveUp("retrieve", r)
              /\ shown' = shown \cup {"search_error"}
              /\ pc' = "idle"
              /\ UNCHANGED <<status, retrieved>>
         [] out = "response" ->
              /\ status' = [status EXCEPT !["retrieve"] = r.code]
              /\ IF RetrieveOk(r.code)
                 THEN /\ StartCall
                      /\ retrieved' = body
                      /\ pc' = IF RerankWanted(search_config, failed_candidate)
                               THEN "rerank" ELSE "results"
                      /\ UNCHANGED shown
                 ELSE \* raise Exception: with_retry lets it through to line 236
                      /\ Returned("retrieve", r)
                      /\ pc' = "idle"
                      /\ shown' = shown \cup {"search_error"}
                      /\ UNCHANGED retrieved
    /\ UNCHANGED <<search_config, search_results, config_data, query,
                   fetched, pre_config, pre_results, search_button, failed_candidate>>

\* perform_rerank (lines 187-194) under with_retry, and lines 224-226
RerankRequest(r) ==
    /\ pc = "rerank"
    /\ Answered("rerank", r)
    /\ LET out == Adapter("rerank", r, total) IN
       CASE out = "retry" ->
              /\ Resend("rerank", r)
              /\ UNCHANGED <<pc, shown, status>>
         [] out = "raise" /\ RetryAgain(attempt + 1) ->
              /\ Again(r)
              /\ UNCHANGED <<pc, shown, status>>
         [] out = "raise" /\ ~RetryAgain(attempt + 1) ->
              /\ GiveUp("rerank", r)
              /\ shown' = shown \cup {"search_error"}
              /\ pc' = "idle"
              /\ UNCHANGED status
         [] out = "response" ->
              /\ status' = [status EXCEPT !["rerank"] = r.code]
              /\ shown' = IF RerankOk(r.code) THEN shown
                                              ELSE shown \cup {"rerank_warning"}
              /\ StartCall
              /\ pc' = AfterRerank(r.code)
    /\ UNCHANGED <<search_config, search_results, config_data, query,
                   fetched, pre_config, pre_results, search_button, retrieved, failed_candidate>>

\* get_results (lines 196-203) under with_retry, and lines 229-234
ResultsRequest(r, body) ==
    /\ pc = "results"
    /\ Answered("results", r)
    /\ LET out == Adapter("results", r, total) IN
       CASE out = "retry" ->
              /\ Resend("results", r)
              /\ UNCHANGED <<pc, shown, status, search_results, fetched>>
         [] out = "raise" /\ RetryAgain(attempt + 1) ->
              /\ Again(r)
              /\ UNCHANGED <<pc, shown, status, search_results, fetched>>
         [] out = "raise" /\ ~RetryAgain(attempt + 1) ->
              /\ GiveUp("results", r)
              /\ shown' = shown \cup {"search_error"}
              /\ pc' = "idle"
              /\ UNCHANGED <<status, search_results, fetched>>
         [] out = "response" ->
              /\ Returned("results", r)
              /\ status' = [status EXCEPT !["results"] = r.code]
              /\ pc' = "idle"
              /\ IF ResultsOk(r.code)
                 THEN /\ search_results' = StoredResults(retrieved, body)
                      /\ fetched' = body
                      /\ shown' = shown \cup {"found"}
                 ELSE /\ shown' = shown \cup {"fetch_failed"}
                      /\ UNCHANGED <<search_results, fetched>>
    /\ UNCHANGED <<search_config, config_data, query, pre_config, pre_results, search_button, retrieved, failed_candidate>>

----------------------------------------------------------------------------
\* the count of the search's requests is not kept
Uncounted == UNCHANGED sent

\* the count of the search's requests after the request to e that r answered
Counted(e, r) == sent' = IF Sent(r) THEN [sent EXCEPT ![e] = @ + 1] ELSE sent

Next ==
    \/ Rerun /\ Uncounted
    \/ \E r \in Replies : ProbeRequest(r) /\ Uncounted
    \/ \E dc \in DocCorrelationChoices, rn \in RecallNumberChoices, rw \in RetrievalWeightChoices,
          mp \in MixedPercentageChoices, re \in BOOLEAN :
            ApplyConfiguration(dc, rn, rw, mp, re) /\ Uncounted
    \/ NoApply /\ Uncounted
    \/ \E r \in Replies : ConfigureRequest(r) /\ Uncounted
    \/ \E button \in BOOLEAN, q \in Queries : SearchInterface(button, q) /\ Uncounted
    \/ \E r \in Replies : SubmitRequest(r) /\ Uncounted
    \/ \E r \in Replies, body \in RetrieveBodies : RetrieveRequest(r, body) /\ Uncounted
    \/ \E r \in Replies : RerankRequest(r) /\ Uncounted
    \/ \E r \in Replies, body \in ResultLists : ResultsRequest(r, body) /\ Uncounted

Spec == Init /\ [][Next]_vars

\* the script runs of a session in which Apply Configuration is never
\* clicked, each up to the return of perform_search, with the requests of
\* the search counted
SearchNext ==
    \/ Rerun /\ sent' = NoneSent
    \/ \E r \in Replies : ProbeRequest(r) /\ Uncounted
    \/ NoApply /\ Uncounted
    \/ \E button \in BOOLEAN, q \in Queries : SearchInterface(button, q) /\ Uncounted
    \/ \E r \in Replies : SubmitRequest(r) /\ Counted("submit", r)
    \/ \E r \in Replies, body \in RetrieveBodies : RetrieveRequest(r, body) /\ Counted("retrieve", r)

SearchSpec == Init /\ [][SearchNext]_vars

----------------------------------------------------------------------------
(* Vocabulary of the properties *)

\* the endpoints of the operations that run through the retry layer
Operations == {"configure", "submit", "retrieve", "rerank", "results"}

\* the script run is over
Ended == pc = "idle"

\* every reply to the wrapped call that ran last was a 503, and there was one
Only503 == hist.shape = "lead503" /\ hist.n503 > 0

\* the messages by which a caller reports a failure
Failures == {"config_error", "config_exception", "search_error", "fetch_failed"}

\* a response status that is neither a success nor in the retryable set
Terminal(code) == code \notin 200..299 /\ code \notin StatusForcelist

NonDecreasing(s) == \A i \in 1..(Len(s) - 1) : s[i] <= s[i + 1]

----------------------------------------------------------------------------
\* C1: an operation of the retry layer whose every request is answered by 503
\* ends in failure after exactly MAX_RETRIES requests: it never sends more,
\* and when it has ended it has sent MAX_RETRIES.
C1_ExactlyMaxRetriesRequests ==
    (lastReply.to \in Operations /\ Only503) =>
        /\ hist.n503 <= MAX_RETRIES
        /\ pc # lastReply.to => (hist.n503 = MAX_RETRIES /\ shown \cap Failures # {})

\* C2: while the backend has answered only 503, fewer than MAX_RETRIES times,
\* the operation is still going (it will send the request that gets the 200);
\* an operation that got 503s and then 200 has succeeded; the sleeps between
\* the attempts never decrease.
C2_SucceedsAfterKRetries ==
    /\ (lastReply.to \in Operations /\ Only503 /\ hist.n503 < MAX_RETRIES) =>
           (pc = lastReply.to /\ shown \cap Failures = {})
    /\ (Ended /\ lastReply.to \in Operations /\ hist.shape = "then200") =>
           shown \cap Failures = {}
    /\ NonDecreasing(sleeps)

\* the message by which the caller of a step reports its failed response
C3_FailureOf(e) ==
    CASE e = "configure" -> "config_error"
      [] e \in {"submit", "retrieve"} -> "search_error"
      [] e = "rerank" -> "rerank_warning"
      [] e = "results" -> "fetch_failed"

\* C3: a response whose status is neither 2xx nor 502/503/504 ends its step at
\* once: the request that received it is the last one of the step (no resend
\* by the adapter, no new attempt by with_retry), no sleep follows it, and
\* the caller reports the failure.
C3_TerminalStatusNotRetried ==
    [][(pc \in Operations /\ lastReply'.kind = "status" /\ Terminal(lastReply'.code)) =>
          /\ pc' \in (IF pc = "rerank" THEN {"results"} ELSE {"idle"})
          /\ attempt' \in {attempt, 0}
          /\ sleeps' \in {sleeps, <<>>}
          /\ C3_FailureOf(pc) \in shown']_vars

\* a first request answered 400 ended the apply-configuration at once
C3_Witness ==
    /\ Ended
    /\ lastReply = [kind |-> "status", code |-> 400, to |-> "configure"]
    /\ attempt = 0 /\ sleeps = <<>>
    /\ hist.shape = "mixed"
    /\ "config_error" \in shown

\* C4: in a search workflow a step runs only after the step before it
\* succeeded: retrieve is requested only when the submit of the same attempt
\* returned 200, rerank and fetch-results only when retrieve returned 200; a
\* submit or retrieve response that is not 200 ends the run at once, and a
\* search that did not get its 200 from retrieve ends Failed without a
\* request to rerank or fetch-results.
C4_StepsInOrder ==
    /\ pc = "retrieve" => status["submit"] = 200
    /\ (pc \in {"rerank", "results"} \/ invoked \cap {"rerank", "results"} # {}) =>
           (status["submit"] = 200 /\ status["retrieve"] = 200)
    /\ (status["submit"] \notin {0, 200} \/ status["retrieve"] \notin {0, 200}) => Ended
    /\ (Ended /\ "submit" \in invoked /\ status["retrieve"] # 200) =>
           ("search_error" \in shown /\ invoked \cap {"rerank", "results"} = {})

\* retrieve is about to be requested in a second attempt, after a retry
C4_Witness ==
    /\ pc = "retrieve"
    /\ attempt > 0
    /\ "retrieve" \in invoked
    /\ status["submit"] = 200

\* C5: with rerank enabled, whatever happens to the rerank step the workflow
\* goes on to fetch-results: a run that requested rerank and is over has
\* requested fetch-results, and a failed rerank left a warning and no failure.
C5_RerankNeverFatal ==
    (Ended /\ "rerank" \in invoked) =>
        /\ "results" \in invoked
        /\ status["rerank"] # 200 => "rerank_warning" \in shown

\* C6: when submit, retrieve and fetch-results return 200 and rerank returns
\* 500, the workflow requests fetch-results and completes: the result set is
\* the fetched list, a warning is shown, and no failure is.
C6_Rerank500Completes ==
    /\ status["rerank"] = 500 =>
           (pc = "results" \/ "results" \in invoked) /\ "rerank_warning" \in shown
    /\ (Ended /\ status["rerank"] = 500 /\ status["results"] = 200) =>
           /\ search_results = fetched
           /\ "found" \in shown
           /\ shown \cap Failures = {}

\* such a run replaced an earlier result set
C6_Witness ==
    /\ Ended
    /\ status["submit"] = 200 /\ status["retrieve"] = 200
    /\ status["rerank"] = 500 /\ status["results"] = 200
    /\ pre_results = <<DocA>>
    /\ search_results = <<DocB, DocA>>

\* C7: an apply-configuration whose outcome is not a success (a non-2xx
\* response, or the exception left after the retries) leaves the stored
\* configuration as it was and reports the failure.
C7_FailedApplyKeepsConfig ==
    /\ pc = "configure" => search_config = pre_config
    /\ (Ended /\ "configure" \in invoked /\ status["configure"] \notin 200..299) =>
           /\ search_config = pre_config
           /\ shown \cap {"config_error", "config_exception"} # {}

\* ten attempts timed out: the candidate, which differs from the stored
\* configuration, was not stored
C7_Witness ==
    /\ Ended
    /\ lastReply = [kind |-> "timeout", code |-> 0, to |-> "configure"]
    /\ attempt = MAX_RETRIES
    /\ config_data # search_config
    /\ "config_exception" \in shown

\* C8: an apply-configuration that received a response of status 200..299
\* has stored the whole candidate.
C8_SuccessStoresCandidate ==
    (Ended /\ status["configure"] \in 200..299) => search_config = config_data

\* C9: the result set changes only by a 200 response of fetch-results, and
\* is then the fetched list; a search workflow that ended in a failure left
\* the result set and the stored configuration as they were, and no search
\* workflow changes the stored configuration.
C9_ResultsOnlyFromFetch ==
    /\ search_results # pre_results =>
           (Ended /\ status["results"] = 200 /\ "found" \in shown)
    /\ status["results"] = 200 => search_results = fetched
    /\ "submit" \in invoked => search_config = pre_config
    /\ (Ended /\ shown \cap {"search_error", "fetch_failed"} # {}) =>
           (search_results = pre_results /\ search_config = pre_config)

\* fetch-results answered 500 and the earlier results are still there
C9_Witness ==
    /\ Ended
    /\ status["results"] = 500
    /\ "fetch_failed" \in shown
    /\ pre_results = <<DocB, DocA>>
    /\ search_results = <<DocB, DocA>>

\* C10 as stated: the stored configuration is within its bounds and holds a
\* mixed_percentage exactly when the weight is Mixed.
C10_MixedPresentIffMixed ==
    /\ search_config.doc_correlation \in 0..100
    /\ search_config.recall_number \in 1..50
    /\ search_config.retrieval_weight \in RetrievalWeights
    /\ (search_config.retrieval_weight = "Mixed") <=>
           (search_config.mixed_percentage \in 0..100)

\* C10 amended: the stored configuration is within its bounds and always
\* holds a mixed_percentage in 0..100, which is 50 when the weight is not Mixed.
C10_StoredConfigValid ==
    /\ search_config.doc_correlation \in 0..100
    /\ search_config.recall_number \in 1..50
    /\ search_config.retrieval_weight \in RetrievalWeights
    /\ search_config.mixed_percentage \in 0..100
    /\ search_config.retrieval_weight # "Mixed" => search_config.mixed_percentage = 50
    /\ search_config.rerank_enabled \in BOOLEAN

\* a Semantic candidate was applied and stored
C10_Witness ==
    /\ Ended
    /\ "config_success" \in shown
    /\ search_config.retrieval_weight = "Semantic"
    /\ search_config # pre_config


\* the probe has reported the backend as not connected
ProbeFailed == shown \cap {"backend_failed", "backend_error"} # {}

\* C11: the probe never gates the operations: whatever reply ends it (a 500,
\* any status, the exception left after the resends), it raises nothing, the
\* run goes on to the panels with the session untouched and no failure of an
\* operation reported, and the state the panels start from does not depend
\* on it.
C11_ProbeNeverGates ==
    /\ [][(pc = "docs" /\ pc' # "docs") =>
             /\ pc' = "panel"
             /\ shown' \subseteq {"backend_connected", "backend_failed", "backend_error"}
             /\ UNCHANGED <<search_config, search_results>>]_vars
    /\ [](pc \in {"panel", "search_iface"} =>
             (attempt = 0 /\ sleeps = <<>> /\ invoked = {"docs"}))

\* after a probe answered 500 a search ran and completed
C11_Witness ==
    /\ Ended
    /\ status["docs"] = 500
    /\ "backend_failed" \in shown
    /\ status["results"] = 200
    /\ "found" \in shown
    /\ search_results # pre_results

\* C12 as stated: a probe sends one GET and never another: while the probe
\* is in progress no request of it has been answered yet.
C12_ProbeSendsOneRequest ==
    pc = "docs" => (total = MAX_RETRIES /\ lastReply.to # "docs")

\* C12 amended: with_retry invokes the probe once and never sleeps, but the
\* adapter sends its GET again after a 502/503/504, a timeout or a connection
\* failure, at most MAX_RETRIES times; any other response ends the probe.
C12_ProbeResentByAdapterOnly ==
    /\ [](pc = "docs" =>
             /\ attempt = 0 /\ sleeps = <<>>
             /\ total \in 0..MAX_RETRIES
             /\ total < MAX_RETRIES =>
                    /\ lastReply.to = "docs"
                    /\ \/ lastReply.kind \in {"connerr", "timeout"}
                       \/ lastReply.code \in StatusForcelist)
    /\ [][pc = "docs" =>
             /\ attempt' = 0 /\ sleeps' = <<>>
             /\ pc' = "docs" => total' = total - 1
             /\ (lastReply'.kind = "status" /\ lastReply'.code \notin StatusForcelist) =>
                    pc' # "docs"]_vars

\* the probe is about to send its eleventh GET, after ten 503 replies
C12_Witness ==
    /\ pc = "docs"
    /\ total = 0
    /\ hist.shape = "lead503" /\ hist.n503 = MAX_RETRIES

\* the headers each call passes to session.get / session.post
Headers(e) == IF e \in {"submit", "retrieve"} THEN {} ELSE {"Connection: close"}

\* C13: every request sent to the backend carries Connection: close.
C13_EveryRequestClosesConnection ==
    lastReply.to \in Endpoints => "Connection: close" \in Headers(lastReply.to)


\* the requests of a search workflow
SearchEndpoints == {"submit", "retrieve", "rerank", "results"}

\* C14: a search triggered with an empty query is not executed: the run ends
\* with no submit, retrieve, rerank or fetch-results request sent, no search
\* message shown and the result set as the run found it; the configuration
\* is what the panel left (the run's own apply apart, it is unchanged).
C14_EmptyQueryNotExecuted ==
    (search_button /\ query = "") =>
        /\ Ended
        /\ invoked \cap SearchEndpoints = {}
        /\ \A e \in SearchEndpoints : status[e] = 0
        /\ shown \cap {"search_error", "rerank_warning", "found", "fetch_failed"} = {}
        /\ search_results = pre_results
        /\ "configure" \notin invoked => search_config = pre_config

\* Search was clicked on an empty box, in a session that holds results
C14_Witness ==
    /\ search_button /\ query = ""
    /\ Ended
    /\ search_results # <<>>

\* the rerank endpoint was or is being called in this run
RerankInvoked == pc = "rerank" \/ "rerank" \in invoked

\* the last apply of the session failed
ApplyFailed == failed_candidate # <<>>

\* C15: rerank is invoked iff retrieval succeeded and the stored
\* configuration has rerank enabled; with it disabled a successful retrieve
\* goes straight to fetch-results; the candidate of a failed apply does not
\* count.
C15_RerankIffStoredEnabled ==
    /\ RerankInvoked => (status["retrieve"] = 200 /\ search_config.rerank_enabled)
    /\ status["retrieve"] = 200 => (RerankInvoked <=> search_config.rerank_enabled)
    /\ (status["retrieve"] = 200 /\ ~search_config.rerank_enabled) =>
           (pc \in {"results", "idle"} /\ status["rerank"] = 0)
    /\ (status["retrieve"] = 200 /\ ApplyFailed) =>
           (RerankInvoked <=> search_config.rerank_enabled)

\* an apply that enabled rerank failed, and a later search went from
\* retrieve to fetch-results without a rerank request
C15_Witness ==
    /\ Ended
    /\ failed_candidate = <<TRUE>>
    /\ ~search_config.rerank_enabled
    /\ status["retrieve"] = 200
    /\ "rerank" \notin invoked
    /\ "found" \in shown

\* C16 as stated: after a completed search the session's result set is the
\* list the retrieval returned (one entry, "doc A", in the scenario).
C16_ResultsAreRetrievalsList ==
    (Ended /\ "found" \in shown) => search_results = retrieved

\* C16 amended: after a completed search the session's result set is the
\* list of the fetch-results response; when that list is the one entry
\* "doc A", the set has exactly one entry, of correlation 0.93. What the
\* retrieval returned is not stored.
C16_ResultsAreFetchedList ==
    "found" \in shown =>
        /\ status["submit"] = 200 /\ status["retrieve"] = 200 /\ status["results"] = 200
        /\ retrieved \in RetrieveBodies
        /\ search_results = fetched
        /\ fetched = <<DocA>> => (Len(search_results) = 1 /\ search_results[1].correlation = 93)

\* the retrieval returned "doc A" alone, fetch-results returned two entries
C16_Witness ==
    /\ Ended /\ "found" \in shown
    /\ retrieved = <<DocA>>
    /\ fetched = <<DocB, DocA>>
    /\ search_results = <<DocB, DocA>>


\* the reply left the wrapped function with a connectivity error
ConnectivityError(r) == r.kind \in {"connerr", "timeout"}

\* C18: a wrapped operation that fails with a connectivity error on every
\* attempt ends: the wrapper counts at most MAX_RETRIES failed invocations,
\* an operation still running has failed fewer times, and a run that the
\* error of the last attempt ended has failed exactly MAX_RETRIES times,
\* shows the exception and has stored nothing.
C18_WrapperGivesUpAfterMaxRetries ==
    /\ attempt \in 0..MAX_RETRIES
    /\ total \in 0..MAX_RETRIES
    /\ pc \in Operations => attempt < MAX_RETRIES
    /\ (Ended /\ lastReply.to \in Operations /\ ConnectivityError(lastReply)) =>
           /\ attempt = MAX_RETRIES
           /\ shown \cap {"config_exception", "search_error"} # {}
           /\ shown \cap {"config_success", "found"} = {}
           /\ search_config = pre_config
           /\ search_results = pre_results
    /\ attempt = MAX_RETRIES =>
           (Ended /\ shown \cap {"config_exception", "search_error"} # {})

\* ten invocations of update_configuration ended in a connection failure
C18_Witness ==
    /\ Ended
    /\ attempt = MAX_RETRIES
    /\ lastReply = [kind |-> "connerr", code |-> 0, to |-> "configure"]
    /\ "config_exception" \in shown
    /\ config_data # search_config

====
